---------------------------- MODULE Spec2Model ----------------------------
(***************************************************************************)
(* Interaction state, paint rules and panels of the Chicago ICE map.       *)
(*                                                                         *)
(* Two map components exist side by side: MapContainer (raster basemap,    *)
(* inline GeoJSON source) and MapboxVectorMap (vector tiles).  `impl' says *)
(* which one is mounted under the page.                                    *)
(*                                                                         *)
(* React state is modelled by its latest value (what the next render       *)
(* shows).  The one piece of state that handlers read back from a closure  *)
(* is the hovered feature id: `hoveredFeatureId' is the React state and    *)
(* `closureHoveredId' the value captured by the handlers of the last       *)
(* render (useCallback deps [hoveredFeatureId]); Render refreshes it.      *)
(*                                                                         *)
(* Numbers: ICE values are in hundredths (-0.4 is -40), opacities in       *)
(* hundredths (0.75 is 75).                                                *)
(***************************************************************************)
EXTENDS Integers, Sequences, FiniteSets, TLC

\* ------------------------------------------------------------------ bounds

\* Number of census tracts in the tract source.
NumFeatures == 2

\* ICE values probed by the paint rules: multiples of 0.05 up to
\* ValueBound * 0.05 in absolute value (beyond [-1, 1] on both sides).
ValueBound == 22

\* Summary-statistics fetches that may be in flight at once.
MaxInFlight == 2

\* Callbacks that may wait for the next 'styledata' event at once.
MaxListeners == 2

\* Features the tract file given to the preparation script may hold.
MaxTractFeatures == 2

\* ------------------------------------------------------------------- data

Null == <<"null", 0>>

\* A property that a feature does not carry at all (JavaScript undefined).
Undefined == <<"undefined", 0>>

Tracts == {<<"tract", i>> : i \in 1..NumFeatures}

\* The GEOID property of a tract's feature.
GEOID(t) == <<"GEOID", t[2]>>

\* The id a GeoJSON source with generateId gives a feature: its index.
GeneratedId(t) == <<"index", t[2] - 1>>

\* The id of a tract's feature in the vector tileset: the preparation
\* script sets feature.id to the GEOID.
VectorId(t) == GEOID(t)

FeatureIds == {GEOID(t) : t \in Tracts} \cup {GeneratedId(t) : t \in Tracts}

Measures == {"ice_race", "ice_income", "ice_race_income"}

Impls == {"MapContainer", "MapboxVectorMap"}

\* StyleSwitcher's style ids; the map starts on MAPBOX_CONFIG.style.
StyleIds == {"standard", "positron", "toner"}

\* The raster tiles a basemap style draws: lightStyle and positronStyle draw
\* CARTO's light_all, standardStyle CARTO's voyager, tonerStyle Stamen's
\* toner; MapboxVectorMap has one fixed Mapbox style.
BasemapTiles(style) ==
    IF style \in {"lightStyle", "positron"} THEN "light_all"
    ELSE IF style = "standard" THEN "rastertiles/voyager"
    ELSE IF style = "toner" THEN "stamen_toner"
    ELSE "mapbox"

PRIORITY_THRESHOLD == -40

VARIABLES
    impl,               \* which map component is mounted
    featureState,       \* the SDK's hover flag per feature id
    hoveredTract,       \* useState hoveredTract (the tract, Null if none)
    selectedTract,      \* useState selectedTract of the map component
    hoveredFeatureId,   \* useState hoveredFeatureId / hoveredStateId
    closureHoveredId,   \* hoveredFeatureId as captured by the last render
    pageSelectedTract,  \* Home's selectedTract, set through onTractSelect
    selectedMeasure,    \* Home's selectedMeasure
    showPriorityAreas,  \* Home's showPriorityAreas
    showCommunityAreas, \* Home's showCommunityAreas
    mapStyle,           \* MapContainer's mapStyle
    selectedStyle,      \* StyleSwitcher's selectedStyle
    viewState,          \* the map component's viewState
    lastEvent,          \* history: the last handler that ran
    probeA,             \* paint probe: a feature's value and hover flag
    probeB,             \* paint probe: a second feature
    fillOpacity,        \* the fill-opacity the paint rule gives each probe
    panelTract,         \* panel probe: the properties of the tract shown
    detailsPanel,       \* what DetailsPanel renders for panelTract
    mapPopup,           \* what the MapPopup renders for panelTract
    backingData,        \* whether the data store still holds panelTract
    colorFeature,       \* colour probe: a feature's value per measure
    colorHover,         \* colour probe: the feature's hover flag
    fillColorExpr,      \* the stops of tract-fill's fill-color expression
    fillColor,          \* the colour the expression gives colorFeature
    stats,              \* Home's stats, shown by MetricsPanel
    requests,           \* summary-stats fetches in flight (their measure)
    exportState,        \* where MapControls' handleExportData stands
    paintMeasure,       \* the measure tract-fill's fill-color reads
    styleLoaded,        \* map.isStyleLoaded()
    styledataListeners, \* callbacks registered with map.once('styledata')
    scriptFiles,        \* preparation script: the input files as found
    scriptNext,         \* preparation script: the file the loop is at
    scriptOutputs       \* preparation script: what it wrote and logged

hoverVars == <<featureState, hoveredTract, hoveredFeatureId, closureHoveredId>>
selectionVars == <<selectedTract, pageSelectedTract>>
pageVars == <<selectedMeasure, showPriorityAreas, showCommunityAreas>>
viewVars == <<mapStyle, selectedStyle, viewState>>
uiVars == <<hoverVars, selectionVars, viewVars, lastEvent>>
paintVars == <<probeA, probeB, fillOpacity>>
panelVars == <<panelTract, detailsPanel, mapPopup, backingData>>
colorVars == <<colorFeature, colorHover, fillColorExpr, fillColor>>
fetchVars == <<stats, requests, exportState>>
styleVars == <<paintMeasure, styleLoaded, styledataListeners>>
scriptVars == <<scriptFiles, scriptNext, scriptOutputs>>
probeVars == <<paintVars, panelVars, colorVars, fetchVars, styleVars,
               scriptVars>>
vars == <<impl, hoverVars, selectionVars, pageVars, viewVars, lastEvent, probeVars>>

Event(kind, f, fresh, prev) == [kind |-> kind, f |-> f, fresh |-> fresh, prev |-> prev]

\* Whether the handlers of the last render hold the current hovered id.
Fresh == closureHoveredId = hoveredFeatureId

\* map.setFeatureState({source, id}, {hover: value})
setFeatureState(fs, id, value) == [fs EXCEPT ![id] = value]

\* ----------------------------------------------------------- MapContainer

\* Faulty variant: the flag of the previously hovered feature is not cleared.
MC_handleHover_NoClear(f) ==
    /\ impl = "MapContainer"
    /\ IF f # Null
       THEN /\ featureState' = setFeatureState(featureState, GEOID(f), TRUE)
            /\ hoveredFeatureId' = GEOID(f)
            /\ hoveredTract' = f
       ELSE /\ IF closureHoveredId # Null
               THEN /\ featureState' =
                         setFeatureState(featureState, closureHoveredId, FALSE)
                    /\ hoveredFeatureId' = Null
               ELSE UNCHANGED <<featureState, hoveredFeatureId>>
            /\ hoveredTract' = Null
    /\ lastEvent' = Event("move", f, Fresh, hoveredTract)
    /\ UNCHANGED probeVars
    /\ UNCHANGED <<impl, closureHoveredId, selectionVars, pageVars, viewVars>>

MC_handleHover(f) ==
    /\ impl = "MapContainer"
    /\ IF f # Null
       THEN /\ featureState' =
                 LET cleared ==
                       IF closureHoveredId # Null /\ closureHoveredId # GEOID(f)
                       THEN setFeatureState(featureState, closureHoveredId, FALSE)
                       ELSE featureState
                 IN  setFeatureState(cleared, GEOID(f), TRUE)
            /\ hoveredFeatureId' = GEOID(f)
            /\ hoveredTract' = f
       ELSE /\ IF closureHoveredId # Null
               THEN /\ featureState' =
                         setFeatureState(featureState, closureHoveredId, FALSE)
                    /\ hoveredFeatureId' = Null
               ELSE UNCHANGED <<featureState, hoveredFeatureId>>
            /\ hoveredTract' = Null
    /\ lastEvent' = Event("move", f, Fresh, hoveredTract)
    /\ UNCHANGED probeVars
    /\ UNCHANGED <<impl, closureHoveredId, selectionVars, pageVars, viewVars>>

MC_onMouseLeave ==
    /\ impl = "MapContainer"
    /\ hoveredTract' = Null
    /\ lastEvent' = Event("leave", Null, Fresh, hoveredTract)
    /\ UNCHANGED probeVars
    /\ UNCHANGED <<impl, featureState, hoveredFeatureId, closureHoveredId,
                   selectionVars, pageVars, viewVars>>

\* Faulty variant: a click that hits no feature clears the selection.
MC_handleClick_ClearsOnMiss(f) ==
    /\ impl = "MapContainer"
    /\ IF f # Null
       THEN /\ selectedTract' = f
            /\ pageSelectedTract' = f
       ELSE /\ selectedTract' = Null
            /\ pageSelectedTract' = Null
    /\ lastEvent' = Event("click", f, Fresh, selectedTract)
    /\ UNCHANGED probeVars
    /\ UNCHANGED <<impl, hoverVars, pageVars, viewVars>>

MC_handleClick(f) ==
    /\ impl = "MapContainer"
    /\ IF f # Null
       THEN /\ selectedTract' = f
            /\ pageSelectedTract' = f
       ELSE UNCHANGED selectionVars
    /\ lastEvent' = Event("click", f, Fresh, selectedTract)
    /\ UNCHANGED probeVars
    /\ UNCHANGED <<impl, hoverVars, pageVars, viewVars>>

\* Faulty variant: the parent is not told that the popup was closed.
MC_PopupOnClose_NoNotify ==
    /\ impl = "MapContainer"
    /\ selectedTract # Null
    /\ selectedTract' = Null
    /\ UNCHANGED pageSelectedTract
    /\ lastEvent' = Event("close", Null, Fresh, selectedTract)
    /\ UNCHANGED probeVars
    /\ UNCHANGED <<impl, hoverVars, pageVars, viewVars>>

MC_PopupOnClose ==
    /\ impl = "MapContainer"
    /\ selectedTract # Null
    /\ selectedTract' = Null
    /\ pageSelectedTract' = Null
    /\ lastEvent' = Event("close", Null, Fresh, selectedTract)
    /\ UNCHANGED probeVars
    /\ UNCHANGED <<impl, hoverVars, pageVars, viewVars>>

\* -------------------------------------------------------- MapboxVectorMap

MV_handleHover(f) ==
    /\ impl = "MapboxVectorMap"
    /\ IF f # Null
       THEN /\ LET cleared ==
                     IF closureHoveredId # Null
                     THEN setFeatureState(featureState, closureHoveredId, FALSE)
                     ELSE featureState
               IN  IF VectorId(f) # Null
                   THEN /\ featureState' = setFeatureState(cleared, VectorId(f), TRUE)
                        /\ hoveredFeatureId' = VectorId(f)
                   ELSE /\ featureState' = cleared
                        /\ UNCHANGED hoveredFeatureId
            /\ hoveredTract' = f
       ELSE /\ IF closureHoveredId # Null
               THEN /\ featureState' =
                         setFeatureState(featureState, closureHoveredId, FALSE)
                    /\ hoveredFeatureId' = Null
               ELSE UNCHANGED <<featureState, hoveredFeatureId>>
            /\ hoveredTract' = Null
    /\ lastEvent' = Event("move", f, Fresh, hoveredTract)
    /\ UNCHANGED probeVars
    /\ UNCHANGED <<impl, closureHoveredId, selectionVars, pageVars, viewVars>>

\* Faulty variant: leaving the map also drops the selection.
MV_onMouseLeave_Deselects ==
    /\ impl = "MapboxVectorMap"
    /\ hoveredTract' = Null
    /\ IF closureHoveredId # Null
       THEN /\ featureState' =
                 setFeatureState(featureState, closureHoveredId, FALSE)
            /\ hoveredFeatureId' = Null
       ELSE UNCHANGED <<featureState, hoveredFeatureId>>
    /\ selectedTract' = Null
    /\ pageSelectedTract' = Null
    /\ lastEvent' = Event("leave", Null, Fresh, hoveredTract)
    /\ UNCHANGED probeVars
    /\ UNCHANGED <<impl, closureHoveredId, pageVars, viewVars>>

MV_onMouseLeave ==
    /\ impl = "MapboxVectorMap"
    /\ hoveredTract' = Null
    /\ IF closureHoveredId # Null
       THEN /\ featureState' =
                 setFeatureState(featureState, closureHoveredId, FALSE)
            /\ hoveredFeatureId' = Null
       ELSE UNCHANGED <<featureState, hoveredFeatureId>>
    /\ lastEvent' = Event("leave", Null, Fresh, hoveredTract)
    /\ UNCHANGED probeVars
    /\ UNCHANGED <<impl, closureHoveredId, selectionVars, pageVars, viewVars>>

\* Faulty variant: the parent is not told of a clicked tract.
MV_handleClick_NoNotify(f) ==
    /\ impl = "MapboxVectorMap"
    /\ IF f # Null
       THEN /\ selectedTract' = f
            /\ UNCHANGED pageSelectedTract
       ELSE /\ selectedTract' = Null
            /\ pageSelectedTract' = Null
    /\ lastEvent' = Event("click", f, Fresh, selectedTract)
    /\ UNCHANGED probeVars
    /\ UNCHANGED <<impl, hoverVars, pageVars, viewVars>>

MV_handleClick(f) ==
    /\ impl = "MapboxVectorMap"
    /\ IF f # Null
       THEN /\ selectedTract' = f
            /\ pageSelectedTract' = f
       ELSE /\ selectedTract' = Null
            /\ pageSelectedTract' = Null
    /\ lastEvent' = Event("click", f, Fresh, selectedTract)
    /\ UNCHANGED probeVars
    /\ UNCHANGED <<impl, hoverVars, pageVars, viewVars>>

MV_PopupOnClose ==
    /\ impl = "MapboxVectorMap"
    /\ selectedTract # Null
    /\ selectedTract' = Null
    /\ pageSelectedTract' = Null
    /\ lastEvent' = Event("close", Null, Fresh, selectedTract)
    /\ UNCHANGED probeVars
    /\ UNCHANGED <<impl, hoverVars, pageVars, viewVars>>

\* ------------------------------------------------------------ what is shown

\* The id under which the mounted component flags a tract's feature.
HoverId(t) == IF impl = "MapContainer" THEN GEOID(t) ELSE VectorId(t)

\* The id by which the tract source identifies a tract's feature: the
\* generated index for MapContainer's GeoJSON source, the id of the tileset
\* for MapboxVectorMap.
SourceFeatureId(t) ==
    IF impl = "MapContainer" THEN GeneratedId(t) ELSE VectorId(t)

\* Faulty variant: the hover Popup is rendered whenever a tract is hovered.
HoverPopup_IgnoresSelection == hoveredTract

\* The tract of the hover Popup, Null when it is not rendered.
HoverPopup == IF hoveredTract # Null /\ selectedTract = Null THEN hoveredTract ELSE Null

\* The tract of the selected Popup, Null when it is not rendered.
SelectedPopup == selectedTract

\* The GEOID the tract-highlight layer of MapContainer filters on, Null when
\* the layer is not rendered.
MC_HighlightFilter == IF selectedTract # Null THEN GEOID(selectedTract) ELSE Null

\* ------------------------------------------------------- page and controls

\* React re-renders the map component: the handlers now close over the
\* current hovered id.
Render ==
    /\ closureHoveredId # hoveredFeatureId
    /\ closureHoveredId' = hoveredFeatureId
    /\ UNCHANGED probeVars
    /\ UNCHANGED <<impl, featureState, hoveredTract, hoveredFeatureId,
                   selectionVars, pageVars, viewVars, lastEvent>>

DetailsPanelOnClose ==
    /\ pageSelectedTract # Null
    /\ pageSelectedTract' = Null
    /\ lastEvent' = Event("other", Null, TRUE, Null)
    /\ UNCHANGED probeVars
    /\ UNCHANGED <<impl, hoverVars, selectedTract, pageVars, viewVars>>

onMeasureChange(m) ==
    /\ selectedMeasure' = m
    /\ lastEvent' = Event("other", Null, TRUE, Null)
    /\ UNCHANGED probeVars
    /\ UNCHANGED <<impl, hoverVars, selectionVars, showPriorityAreas,
                   showCommunityAreas, viewVars>>

onTogglePriority(b) ==
    /\ showPriorityAreas' = b
    /\ lastEvent' = Event("other", Null, TRUE, Null)
    /\ UNCHANGED probeVars
    /\ UNCHANGED <<impl, hoverVars, selectionVars, selectedMeasure,
                   showCommunityAreas, viewVars>>

onToggleCommunityAreas(b) ==
    /\ showCommunityAreas' = b
    /\ lastEvent' = Event("other", Null, TRUE, Null)
    /\ UNCHANGED probeVars
    /\ UNCHANGED <<impl, hoverVars, selectionVars, selectedMeasure,
                   showPriorityAreas, viewVars>>

handleStyleChange(styleId) ==
    /\ impl = "MapContainer"
    /\ IF styleId \in StyleIds
       THEN /\ selectedStyle' = styleId
            /\ mapStyle' = styleId
       ELSE UNCHANGED <<selectedStyle, mapStyle>>
    /\ lastEvent' = Event("other", Null, TRUE, Null)
    /\ UNCHANGED probeVars
    /\ UNCHANGED <<impl, hoverVars, selectionVars, pageVars, viewState>>

onMove ==
    /\ viewState' = "moved"
    /\ lastEvent' = Event("other", Null, TRUE, Null)
    /\ UNCHANGED probeVars
    /\ UNCHANGED <<impl, hoverVars, selectionVars, pageVars, mapStyle, selectedStyle>>

onResetView ==
    /\ viewState' = "defaultView"
    /\ lastEvent' = Event("other", Null, TRUE, Null)
    /\ UNCHANGED probeVars
    /\ UNCHANGED <<impl, hoverVars, selectionVars, pageVars, mapStyle, selectedStyle>>

\* ------------------------------------------------------------ paint rules

\* The ICE values a probed feature may carry: Null (no data) or a number.
\* A numeric property value; Null stands for JSON null.
Num(n) == <<"number", n>>

ProbeValues == {Num(5 * k) : k \in (0 - ValueBound)..ValueBound} \cup {Null}

Probe(value, hover) == [value |-> value, hover |-> hover]

\* JavaScript values that occur in the opacity rules, and their truthiness.
JsBoolean(b) == <<"boolean", b>>
JsArray == <<"array", TRUE>>
Truthy(x) == IF x[1] = "boolean" THEN x[2] ELSE TRUE
JsAnd(a, b) == IF Truthy(a) THEN b ELSE a

\* ['<', ['get', selectedMeasure], threshold] as the SDK evaluates it for a
\* feature whose value is a number.
ExprLess(value, threshold) == value[2] < threshold

\* MapContainer's fill-opacity expression, evaluated for one feature.  The
\* order comparison is defined on numbers only: for a feature without a
\* value its evaluation fails and the SDK paints the property's default, 1.
MC_fillOpacity(value, hover, priority) ==
    IF hover THEN 90
    ELSE IF priority
         THEN IF value = Null THEN 100
              ELSE IF ExprLess(value, -40) THEN 85 ELSE 30
         ELSE 75

\* MapboxVectorMap's fill-opacity expression.  Its last operand is a
\* JavaScript conditional decided when the component renders:
\* showPriorityAreas && [expression array] ? 0.8 : 0.65.
MV_fillOpacity(value, hover, priority) ==
    IF hover THEN 85
    ELSE IF Truthy(JsAnd(JsBoolean(priority), JsArray)) THEN 80 ELSE 65

FillOpacity(i, probe, priority) ==
    IF i = "MapContainer"
    THEN MC_fillOpacity(probe.value, probe.hover, priority)
    ELSE MV_fillOpacity(probe.value, probe.hover, priority)

\* The tract-fill layer as painted for the two probed features.
PaintFill(i, a, b, priority) ==
    [A |-> FillOpacity(i, a, priority), B |-> FillOpacity(i, b, priority)]

\* The priority toggle of the legend, followed by the re-render of the layer.
Paint_onTogglePriority(b) ==
    /\ showPriorityAreas' = b
    /\ fillOpacity' = PaintFill(impl, probeA, probeB, b)
    /\ UNCHANGED <<impl, uiVars, selectedMeasure, showCommunityAreas,
                   probeA, probeB, panelVars, colorVars, fetchVars,
                   styleVars,
                   scriptVars>>

\* The SDK re-evaluates the layer when a feature's hover flag changes.
Paint_setHoverA(h) ==
    /\ probeA' = Probe(probeA.value, h)
    /\ fillOpacity' = PaintFill(impl, probeA', probeB, showPriorityAreas)
    /\ UNCHANGED <<impl, uiVars, pageVars, probeB, panelVars, colorVars,
                   fetchVars, styleVars,
                   scriptVars>>

Paint_setHoverB(h) ==
    /\ probeB' = Probe(probeB.value, h)
    /\ fillOpacity' = PaintFill(impl, probeA, probeB', showPriorityAreas)
    /\ UNCHANGED <<impl, uiVars, pageVars, probeA, panelVars, colorVars,
                   fetchVars, styleVars,
                   scriptVars>>

\* ----------------------------------------------------------- colour scale

\* Colours '#rrggbb' are written as their six hexadecimal digits.
ICE_COLOR_SCALE ==
    [colors |-> << <<6, 7, 0, 0, 0, 13>>,       \* #67000d
                   <<10, 5, 0, 15, 1, 5>>,      \* #a50f15
                   <<12, 11, 1, 8, 1, 13>>,     \* #cb181d
                   <<14, 15, 3, 11, 2, 12>>,    \* #ef3b2c
                   <<15, 11, 6, 10, 4, 10>>,    \* #fb6a4a
                   <<15, 15, 15, 15, 15, 15>>,  \* #ffffff
                   <<6, 11, 10, 14, 13, 6>>,    \* #6baed6
                   <<3, 1, 8, 2, 11, 13>>,      \* #3182bd
                   <<0, 8, 5, 1, 9, 12>>,       \* #08519c
                   <<0, 8, 4, 5, 9, 4>>,        \* #084594
                   <<0, 8, 3, 0, 6, 11>> >>,    \* #08306b
     breakpoints |-> <<-100, -80, -60, -40, -20, 0, 20, 40, 60, 80, 100>>]

\* Faulty variant: the breakpoint -0.6 is written -0.5.
ICE_COLOR_SCALE_VECTOR_Uneven ==
    [stops |-> << <<-100, <<6, 7, 0, 0, 0, 13>> >>,
                  <<-80, <<10, 5, 0, 15, 1, 5>> >>,
                  <<-50, <<12, 11, 1, 8, 1, 13>> >>,
                  <<-40, <<14, 15, 3, 11, 2, 12>> >>,
                  <<-20, <<15, 11, 6, 10, 4, 10>> >>,
                  <<0, <<15, 15, 15, 15, 15, 15>> >>,
                  <<20, <<6, 11, 10, 14, 13, 6>> >>,
                  <<40, <<3, 1, 8, 2, 11, 13>> >>,
                  <<60, <<0, 8, 5, 1, 9, 12>> >>,
                  <<80, <<0, 8, 4, 5, 9, 4>> >>,
                  <<100, <<0, 8, 3, 0, 6, 11>> >> >>]

ICE_COLOR_SCALE_VECTOR ==
    [stops |-> << <<-100, <<6, 7, 0, 0, 0, 13>> >>,       \* #67000d
                  <<-80, <<10, 5, 0, 15, 1, 5>> >>,       \* #a50f15
                  <<-60, <<12, 11, 1, 8, 1, 13>> >>,      \* #cb181d
                  <<-40, <<14, 15, 3, 11, 2, 12>> >>,     \* #ef3b2c
                  <<-20, <<15, 11, 6, 10, 4, 10>> >>,     \* #fb6a4a
                  <<0, <<15, 15, 15, 15, 15, 15>> >>,     \* #ffffff
                  <<20, <<6, 11, 10, 14, 13, 6>> >>,      \* #6baed6
                  <<40, <<3, 1, 8, 2, 11, 13>> >>,        \* #3182bd
                  <<60, <<0, 8, 5, 1, 9, 12>> >>,         \* #08519c
                  <<80, <<0, 8, 4, 5, 9, 4>> >>,          \* #084594
                  <<100, <<0, 8, 3, 0, 6, 11>> >> >>]     \* #08306b

\* Array.prototype.flat() on an array of [input, output] pairs.
RECURSIVE Flat(_)
Flat(pairs) ==
    IF Len(pairs) = 0 THEN <<>>
    ELSE <<pairs[1][1], pairs[1][2]>> \o Flat(Tail(pairs))

\* breakpoints.flatMap((value, index) => [value, colors[index]])
BreakpointStops(scale) ==
    Flat([index \in 1..Len(scale.breakpoints) |->
            <<scale.breakpoints[index], scale.colors[index]>>])

\* The fill-color expression
\*   ['case', ['==', ['get', m], null], noData,
\*            ['interpolate', ['linear'], ['get', m], ...stops]]
\* kept as the property it reads, its no-data colour and its stops.
FillColorExpression(measure, noData, stops) ==
    [get |-> measure, noData |-> noData, stops |-> stops]

\* Faulty variant: features without a value are painted white.
MC_fillColor_WhiteNoData(measure) ==
    FillColorExpression(measure, <<15, 15, 15, 15, 15, 15>>,
                        BreakpointStops(ICE_COLOR_SCALE))

\* MapContainer's fillPaint['fill-color']; no data is #e0e0e0.
MC_fillColor(measure) ==
    FillColorExpression(measure, <<14, 0, 14, 0, 14, 0>>,
                        BreakpointStops(ICE_COLOR_SCALE))

\* MapboxVectorMap's fill-color; no data is #cccccc.
MV_fillColor(measure) ==
    FillColorExpression(measure, <<12, 12, 12, 12, 12, 12>>,
                        Flat(ICE_COLOR_SCALE_VECTOR.stops))

FillColor(i, measure) ==
    IF i = "MapContainer" THEN MC_fillColor(measure) ELSE MV_fillColor(measure)

\* The SDK's reading of a colour string: the channels red, green, blue.
ParseColor(hex) ==
    <<16 * hex[1] + hex[2], 16 * hex[3] + hex[4], 16 * hex[5] + hex[6]>>

\* A colour with rational channels rgb[c] / den (den > 0).
Color(rgb, den) == [rgb |-> rgb, den |-> den]

StopCount(stops) == Len(stops) \div 2
StopInput(stops, i) == stops[2 * i - 1]
StopOutput(stops, i) == ParseColor(stops[2 * i])

\* The stop at or below x (x lies strictly inside the range of the stops).
StopBelow(stops, x) ==
    CHOOSE j \in 1..(StopCount(stops) - 1) :
        StopInput(stops, j) <= x /\ x < StopInput(stops, j + 1)

\* Faulty variant: outside the stops the first or last segment is prolonged.
Interpolate_Extrapolate(stops, x) ==
    LET n == StopCount(stops)
        i == IF x < StopInput(stops, 1) THEN 1
             ELSE IF x >= StopInput(stops, n) THEN n - 1
             ELSE StopBelow(stops, x)
        lo == StopOutput(stops, i)
        hi == StopOutput(stops, i + 1)
        d == StopInput(stops, i + 1) - StopInput(stops, i)
        at == x - StopInput(stops, i)
    IN  Color(<<lo[1] * d + (hi[1] - lo[1]) * at,
                lo[2] * d + (hi[2] - lo[2]) * at,
                lo[3] * d + (hi[3] - lo[3]) * at>>, d)

\* Faulty variant: inside a segment the colour moves twice as fast.
Interpolate_Overshoot(stops, x) ==
    LET n == StopCount(stops)
    IN  IF x <= StopInput(stops, 1) THEN Color(StopOutput(stops, 1), 1)
        ELSE IF x >= StopInput(stops, n) THEN Color(StopOutput(stops, n), 1)
        ELSE LET i == StopBelow(stops, x)
                 lo == StopOutput(stops, i)
                 hi == StopOutput(stops, i + 1)
                 d == StopInput(stops, i + 1) - StopInput(stops, i)
                 at == 2 * (x - StopInput(stops, i))
             IN  Color(<<lo[1] * d + (hi[1] - lo[1]) * at,
                         lo[2] * d + (hi[2] - lo[2]) * at,
                         lo[3] * d + (hi[3] - lo[3]) * at>>, d)

\* ['interpolate', ['linear'], x, ...stops] on colours: at or below the
\* first stop its colour, at or above the last stop its colour, in between
\* each channel moves linearly from the stop below to the stop above.
Interpolate(stops, x) ==
    LET n == StopCount(stops)
    IN  IF x <= StopInput(stops, 1) THEN Color(StopOutput(stops, 1), 1)
        ELSE IF x >= StopInput(stops, n) THEN Color(StopOutput(stops, n), 1)
        ELSE LET i == StopBelow(stops, x)
                 lo == StopOutput(stops, i)
                 hi == StopOutput(stops, i + 1)
                 d == StopInput(stops, i + 1) - StopInput(stops, i)
                 at == x - StopInput(stops, i)
             IN  Color(<<lo[1] * d + (hi[1] - lo[1]) * at,
                         lo[2] * d + (hi[2] - lo[2]) * at,
                         lo[3] * d + (hi[3] - lo[3]) * at>>, d)

\* ['get', property]: null for a property the feature does not carry.
Get(feature, property) ==
    IF feature[property] = Undefined THEN Null ELSE feature[property]

\* Faulty variant: the expression reads ice_race whatever measure it names.
EvaluateFillColor_ReadsRace(expr, feature) ==
    IF Get(feature, "ice_race") = Null
    THEN Color(ParseColor(expr.noData), 1)
    ELSE Interpolate(expr.stops, Get(feature, "ice_race")[2])

\* The colour the SDK paints a feature with under a fill-color expression.
\* The expression reads one property of the feature and nothing else (no
\* feature-state, no other property).
EvaluateFillColor(expr, feature) ==
    IF Get(feature, expr.get) = Null
    THEN Color(ParseColor(expr.noData), 1)
    ELSE Interpolate(expr.stops, Get(feature, expr.get)[2])

ColorValues == ProbeValues \cup {Undefined}

\* Features that carry a value of any kind for one measure and no data or
\* zero for the other two.
ColorFeatures ==
    {[m \in Measures |-> IF m = k THEN v ELSE o] :
        k \in Measures, v \in ColorValues, o \in {Null, Num(0)}}

\* A measure change re-renders the layer with the expression of the new
\* measure and the SDK repaints the feature.
Color_onMeasureChange(m) ==
    /\ selectedMeasure' = m
    /\ fillColorExpr' = FillColor(impl, m)
    /\ fillColor' = EvaluateFillColor(fillColorExpr', colorFeature)
    /\ UNCHANGED <<impl, uiVars, showPriorityAreas, showCommunityAreas,
                   paintVars, panelVars, colorFeature, colorHover, fetchVars,
                   styleVars, scriptVars>>

\* The hover flag of the feature changes and the SDK repaints it.
Color_setHover(h) ==
    /\ colorHover' = h
    /\ fillColor' = EvaluateFillColor(fillColorExpr, colorFeature)
    /\ UNCHANGED <<impl, uiVars, pageVars, paintVars, panelVars, colorFeature,
                   fillColorExpr, fetchVars, styleVars, scriptVars>>

\* The priority toggle: the component re-renders, fillPaint is built again.
Color_onTogglePriority(b) ==
    /\ showPriorityAreas' = b
    /\ fillColorExpr' = FillColor(impl, selectedMeasure)
    /\ fillColor' = EvaluateFillColor(fillColorExpr', colorFeature)
    /\ UNCHANGED <<impl, uiVars, selectedMeasure, showCommunityAreas,
                   paintVars, panelVars, colorFeature, colorHover, fetchVars,
                   styleVars, scriptVars>>

\* The community-area toggle: the component re-renders likewise.
Color_onToggleCommunityAreas(b) ==
    /\ showCommunityAreas' = b
    /\ fillColorExpr' = FillColor(impl, selectedMeasure)
    /\ fillColor' = EvaluateFillColor(fillColorExpr', colorFeature)
    /\ UNCHANGED <<impl, uiVars, selectedMeasure, showPriorityAreas,
                   paintVars, panelVars, colorFeature, colorHover, fetchVars,
                   styleVars, scriptVars>>

\* The selection changes (a click selects a tract, a close selects none):
\* the component re-renders likewise.
Color_onSelect(t) ==
    /\ selectedTract' = t
    /\ pageSelectedTract' = t
    /\ fillColorExpr' = FillColor(impl, selectedMeasure)
    /\ fillColor' = EvaluateFillColor(fillColorExpr', colorFeature)
    /\ UNCHANGED <<impl, hoverVars, viewVars, lastEvent, pageVars, paintVars,
                   panelVars, colorFeature, colorHover, fetchVars, styleVars,
                   scriptVars>>

\* ------------------------------------------------------ summary statistics

\* useState's initial stats: 866 tracts, 330 priority tracts, mean 0.113
\* (avgValue in thousandths).
DefaultStats == [totalTracts |-> 866, priorityTracts |-> 330, avgValue |-> 113]

\* selectedMeasure.replace('ice_', ''): the key into data.priority_areas.
ShortName(m) ==
    IF m = "ice_race" THEN "race"
    ELSE IF m = "ice_income" THEN "income" ELSE "race_income"

\* Contents /data/ice-summary-stats.json may have: total_tracts, the object
\* priority_areas (a count per short name) and one object with a mean per
\* measure (in thousandths); each of the three may be missing.
FilePriorityAreas ==
    [race |-> Num(212), income |-> Num(187), race_income |-> Num(0)]
FileMeans ==
    [ice_race |-> Num(98), ice_income |-> Num(-41), ice_race_income |-> Num(0)]

SummaryFiles ==
    [total_tracts : {Num(1332), Undefined},
     has_priority_areas : BOOLEAN,
     has_measures : BOOLEAN]

\* What a fetch of the file can end in: the request rejects, the body is
\* not JSON (res.json() rejects), or a parsed file.
Response(kind, data) == [kind |-> kind, data |-> data]
NoBody == [total_tracts |-> Undefined, has_priority_areas |-> FALSE,
           has_measures |-> FALSE]
Responses ==
    {Response("rejected", NoBody), Response("unparsable", NoBody)}
    \cup {Response("json", d) : d \in SummaryFiles}

\* JavaScript's x || fallback on a number that may be missing.
JsOr(x, fallback) ==
    IF x = Undefined \/ x = Num(0) THEN fallback ELSE x[2]

\* What becomes of one fetch of the effect that ran for measure m:
\*   "set"     setStats ran,
\*   "skipped" data[m] is missing, the callback does nothing,
\*   "caught"  the chain rejected or threw (data.priority_areas is missing
\*             and indexing it throws); .catch(console.error) logs it.
StatsOutcome(m, response) ==
    IF response.kind # "json" THEN "caught"
    ELSE IF ~response.data.has_measures THEN "skipped"
    ELSE IF ~response.data.has_priority_areas THEN "caught"
    ELSE "set"

\* The stats after that fetch has settled.
StatsAfter(old, m, response) ==
    IF StatsOutcome(m, response) = "set"
    THEN [totalTracts |-> JsOr(response.data.total_tracts, 866),
          priorityTracts |-> JsOr(FilePriorityAreas[ShortName(m)], 0),
          avgValue |-> JsOr(FileMeans[m], 0)]
    ELSE old

\* RemoveAt(seq, i): seq without its i-th element.
RemoveAt(seq, i) ==
    [j \in 1..(Len(seq) - 1) |-> IF j < i THEN seq[j] ELSE seq[j + 1]]

\* setSelectedMeasure(m) with a new measure: the effect runs again and
\* starts a fetch whose callbacks hold m.
Fetch_onMeasureChange(m) ==
    /\ m # selectedMeasure
    /\ Len(requests) < MaxInFlight
    /\ selectedMeasure' = m
    /\ requests' = Append(requests, m)
    /\ lastEvent' = Event("other", Null, TRUE, Null)
    /\ UNCHANGED <<impl, hoverVars, selectionVars, viewVars, showPriorityAreas,
                   showCommunityAreas, paintVars, panelVars, colorVars, stats,
                   exportState, styleVars,
                   scriptVars>>

\* One of the fetches in flight settles with some response.
Fetch_settle(i, response) ==
    /\ i \in 1..Len(requests)
    /\ stats' = StatsAfter(stats, requests[i], response)
    /\ requests' = RemoveAt(requests, i)
    /\ lastEvent' = Event(StatsOutcome(requests[i], response), Null, TRUE, Null)
    /\ UNCHANGED <<impl, hoverVars, selectionVars, viewVars, pageVars,
                   paintVars, panelVars, colorVars, exportState, styleVars,
                   scriptVars>>

\* MapControls: 'Download Data' is clicked; handleExportData awaits the
\* fetch.
Export_click ==
    /\ exportState # "fetching"
    /\ exportState' = "fetching"
    /\ lastEvent' = Event("other", Null, TRUE, Null)
    /\ UNCHANGED <<impl, hoverVars, selectionVars, viewVars, pageVars,
                   paintVars, panelVars, colorVars, stats, requests, styleVars,
                   scriptVars>>

\* The awaited fetch settles.  handleExportData is an async function with no
\* try/catch, called from onClick, which drops the promise it returns: a
\* rejection of either await rejects that promise with nobody listening.
Export_settle(response) ==
    /\ exportState = "fetching"
    /\ exportState' = IF response.kind = "json" THEN "downloaded"
                      ELSE "unhandledRejection"
    /\ lastEvent' = Event("other", Null, TRUE, Null)
    /\ UNCHANGED <<impl, hoverVars, selectionVars, viewVars, pageVars,
                   paintVars, panelVars, colorVars, stats, requests, styleVars,
                   scriptVars>>

\* ------------------------------------------------- fill-color and measure

\* Run the waiting callbacks in the order they were registered: each sets
\* the fill-color to the expression of the measure it holds.
RECURSIVE RunListeners(_, _)
RunListeners(listeners, measure) ==
    IF Len(listeners) = 0 THEN measure
    ELSE RunListeners(Tail(listeners), listeners[1])

\* MapContainer, a new measure: the re-render hands the Layer the paint of
\* the new measure, then the effect sets the same expression again if the
\* style is loaded and returns without doing anything if it is not.
MC_onMeasureChange(m) ==
    /\ impl = "MapContainer"
    /\ m # selectedMeasure
    /\ selectedMeasure' = m
    /\ paintMeasure' = MC_fillColor(m).get
    /\ UNCHANGED <<styleLoaded, styledataListeners>>
    /\ lastEvent' = Event("other", Null, TRUE, Null)
    /\ UNCHANGED <<impl, hoverVars, selectionVars, viewVars, showPriorityAreas,
                   showCommunityAreas, paintVars, panelVars, colorVars,
                   fetchVars, scriptVars>>

\* MapboxVectorMap, a new measure: the re-render hands the Layer the paint
\* of the new measure, then the effect sets the expression at once if the
\* style is loaded and otherwise registers updateStyle, which holds m, for
\* the next 'styledata' event.
MV_onMeasureChange(m) ==
    /\ impl = "MapboxVectorMap"
    /\ m # selectedMeasure
    /\ selectedMeasure' = m
    /\ paintMeasure' = MV_fillColor(m).get
    /\ IF styleLoaded
       THEN UNCHANGED styledataListeners
       ELSE /\ Len(styledataListeners) < MaxListeners
            /\ styledataListeners' = Append(styledataListeners, m)
    /\ UNCHANGED styleLoaded
    /\ lastEvent' = Event("other", Null, TRUE, Null)
    /\ UNCHANGED <<impl, hoverVars, selectionVars, viewVars, showPriorityAreas,
                   showCommunityAreas, paintVars, panelVars, colorVars,
                   fetchVars, scriptVars>>

\* Tiles start or finish loading: isStyleLoaded() changes.  Source data
\* fires 'sourcedata', not 'styledata'.
Style_setLoaded(b) ==
    /\ styleLoaded # b
    /\ styleLoaded' = b
    /\ lastEvent' = Event("other", Null, TRUE, Null)
    /\ UNCHANGED <<impl, hoverVars, selectionVars, viewVars, pageVars,
                   paintVars, panelVars, colorVars, fetchVars, scriptVars, paintMeasure,
                   styledataListeners>>

\* The map fires 'styledata': the callbacks registered with once() run and
\* are gone.
Style_styledata ==
    /\ paintMeasure' = RunListeners(styledataListeners, paintMeasure)
    /\ styledataListeners' = <<>>
    /\ lastEvent' = Event("styledata", Null, TRUE, Null)
    /\ UNCHANGED <<impl, hoverVars, selectionVars, viewVars, pageVars,
                   paintVars, panelVars, colorVars, fetchVars, scriptVars,
                   styleLoaded>>

\* ----------------------------------------------------- preparation script

\* Values a GeoJSON property may hold besides numbers and null: a string
\* that spells the number n, and a string that spells no number.  In the
\* script's data ICE values are in hundred-thousandths (-0.40004 is -40004)
\* and counts are plain integers.
Str(n) == <<"string", n>>
Text == <<"text", 0>>
NaN == <<"NaN", 0>>

\* A value of the kind of v (number or numeric string) spelling n; null,
\* missing and non-numeric values stay as they are.
SameKind(v, n) ==
    IF v[1] = "number" THEN Num(n)
    ELSE IF v[1] = "string" THEN Str(n) ELSE v

\* The properties of a feature: the keys the script names (GEOID,
\* community, NAME, ice_race, total_pop, quintile_race) and two keys the
\* application reads that it does not name (ice_race_quintile,
\* total_hh_count).  a is the value of the first kind, b of the second.
Properties(geoid, community, a, b) ==
    [GEOID |-> geoid, community |-> community, NAME |-> Text,
     ice_race |-> a, total_pop |-> SameKind(a, 2500), quintile_race |-> b,
     ice_race_quintile |-> b, total_hh_count |-> SameKind(b, 900)]

\* A feature of an input file; hasProperties is false for a feature whose
\* properties member is null or missing.
Feature(hasProperties, id, properties) ==
    [hasProperties |-> hasProperties, id |-> id, properties |-> properties]

TractFeatureKinds ==
    {<<FALSE, Null, Num(3)>>}
    \cup {<<TRUE, a, b>> :
            a \in {Num(-40004), Str(-40004), Text, Null, Undefined},
            b \in {Num(3), Str(3)}}

\* The i-th feature of the tract file.
TractFeature(i, kind) ==
    Feature(kind[1], Undefined,
            Properties(<<"GEOID", i>>, Undefined, kind[2], kind[3]))

TractFeatureLists ==
    UNION {{[i \in 1..n |-> TractFeature(i, kinds[i])] :
               kinds \in [1..n -> TractFeatureKinds]} :
           n \in 0..MaxTractFeatures}

\* The community-area file: one feature without properties and one with.
AreaFeatures ==
    <<Feature(FALSE, Undefined,
              Properties(Undefined, <<"community", 1>>, Null, Num(3))),
      Feature(TRUE, Undefined,
              Properties(Undefined, <<"community", 2>>, Str(12345), Str(3)))>>

\* An input file as the script finds it: "ok", or an error at readFileSync
\* ("unreadable"), at JSON.parse ("unparsable") or at writeFileSync of its
\* output ("unwritable").
File(status, features) == [status |-> status, features |-> features]

FileErrors == {"unreadable", "unparsable", "unwritable"}

TractFiles ==
    {File("ok", fs) : fs \in TractFeatureLists}
    \cup {File(e, <<>>) : e \in FileErrors}

AreaFiles ==
    {File("ok", AreaFeatures)} \cup {File(e, AreaFeatures) : e \in FileErrors}

\* parseFloat on a number, on a string that spells one, on any other string.
parseFloat(v) ==
    IF v[1] = "number" THEN v
    ELSE IF v[1] = "string" THEN Num(v[2]) ELSE NaN

\* if (props[key] !== undefined && props[key] !== null)
\*     props[key] = parseFloat(props[key])
CoerceNumber(v) ==
    IF v # Undefined /\ v # Null THEN parseFloat(v) ELSE v

\* Math.round(v * 10000) / 10000 on a value in hundred-thousandths;
\* Math.round rounds halves up.
Round4(v) ==
    IF v # Undefined /\ v # Null
    THEN (IF v[1] = "number" THEN Num(((v[2] + 5) \div 10) * 10) ELSE NaN)
    ELSE v

\* feature.properties.GEOID || feature.properties.community || index
FeatureId(properties, index) ==
    IF properties.GEOID # Undefined THEN properties.GEOID
    ELSE IF properties.community # Undefined THEN properties.community
    ELSE Num(index)

\* JSON.stringify writes NaN as null (and leaves out undefined members).
Stringify(v) == IF v = NaN THEN Null ELSE v

\* The callback of data.features.map for a feature that has properties,
\* as the feature reads in the written file.  index counts from 0.  The
\* keys NAMELSAD, STATEFP, COUNTYFP and TRACTCE are deleted like NAME.
ProcessFeature(feature, index) ==
    LET props == feature.properties
    IN  Feature(TRUE,
                IF feature.id = Undefined THEN FeatureId(props, index)
                ELSE feature.id,
                [GEOID |-> props.GEOID,
                 community |-> props.community,
                 NAME |-> Undefined,
                 ice_race |-> Stringify(Round4(CoerceNumber(props.ice_race))),
                 total_pop |-> Stringify(CoerceNumber(props.total_pop)),
                 quintile_race |-> Stringify(CoerceNumber(props.quintile_race)),
                 ice_race_quintile |-> props.ice_race_quintile,
                 total_hh_count |-> props.total_hh_count])

\* data.features.map(...).filter(f => f !== null)
RECURSIVE ProcessFeatures(_, _)
ProcessFeatures(features, index) ==
    IF Len(features) = 0 THEN <<>>
    ELSE (IF features[1].hasProperties
          THEN <<ProcessFeature(features[1], index)>>
          ELSE <<>>) \o ProcessFeatures(Tail(features), index + 1)

SkippedFeatures(features) ==
    Cardinality({i \in 1..Len(features) : ~features[i].hasProperties})

\* What one pass of the loop leaves behind for its file.
Output(written, features, processed, skipped) ==
    [written |-> written, features |-> features, processed |-> processed,
     skipped |-> skipped]

NotProcessed == Output(FALSE, <<>>, 0, 0)

\* The body of the loop for one file: inside try, an error anywhere is
\* caught and logged, nothing is written and nothing is counted.
ProcessFile(file) ==
    IF file.status = "ok"
    THEN Output(TRUE, ProcessFeatures(file.features, 0),
                Len(file.features) - SkippedFeatures(file.features),
                SkippedFeatures(file.features))
    ELSE NotProcessed

\* Faulty variant: an error on a file ends the loop.
Script_processFile_StopsOnError ==
    /\ scriptNext <= Len(scriptFiles)
    /\ scriptOutputs' =
         [scriptOutputs EXCEPT ![scriptNext] = ProcessFile(scriptFiles[scriptNext])]
    /\ scriptNext' = IF scriptFiles[scriptNext].status = "ok"
                     THEN scriptNext + 1 ELSE Len(scriptFiles) + 1
    /\ UNCHANGED <<impl, uiVars, pageVars, paintVars, panelVars, colorVars,
                   fetchVars, styleVars, scriptFiles>>

\* One pass of `for (const file of files)'.
Script_processFile ==
    /\ scriptNext <= Len(scriptFiles)
    /\ scriptOutputs' =
         [scriptOutputs EXCEPT ![scriptNext] = ProcessFile(scriptFiles[scriptNext])]
    /\ scriptNext' = scriptNext + 1
    /\ UNCHANGED <<impl, uiVars, pageVars, paintVars, panelVars, colorVars,
                   fetchVars, styleVars, scriptFiles>>

\* ----------------------------------------------------------------- panels

\* tract[`${measure}_reliable`]: true, false, or not present in the data.
ReliableFlags == {"true", "false", "absent"}

PanelValues == {Null, Undefined, Num(-45), Num(-40), Num(0), Num(42)}

PanelTracts ==
    [ice : [Measures -> PanelValues], reliable : [Measures -> ReliableFlags]]

\* JavaScript truthiness of a reliability flag.
FlagTruthy(flag) == flag = "true"

\* What a value cell shows: the text 'No data', a number printed with
\* three decimals (n in thousandths), or nothing because rendering threw.
Shown(kind, n) == [kind |-> kind, n |-> n]

\* Number.prototype.toFixed(3) of a value held in hundredths.
toFixed3(value) == Shown("toFixed(3)", 10 * value[2])

\* formatValue of MapPopup and of DetailsPanel (the same code in both):
\*   if (value === null) return 'No data'; return value.toFixed(3);
\* undefined passes the strict comparison and has no toFixed method.
formatValue(value) ==
    IF value = Null THEN Shown("No data", 0)
    ELSE IF value = Undefined THEN Shown("TypeError", 0)
    ELSE toFixed3(value)

\* A comparison of JavaScript's value < n or value > n with a number n: false
\* for undefined (NaN compares false); null is tested for before.
JsLess(value, n) == value[1] = "number" /\ value[2] < n
JsGreater(value, n) == value[1] = "number" /\ value[2] > n

\* getValueColor of MapPopup.
MapPopup_getValueColor(value) ==
    IF value = Null THEN "text-gray-500"
    ELSE IF JsLess(value, -40) THEN "text-red-600 font-semibold"
    ELSE IF JsLess(value, 0) THEN "text-orange-600"
    ELSE IF JsGreater(value, 40) THEN "text-blue-600 font-semibold"
    ELSE IF JsGreater(value, 0) THEN "text-sky-600"
    ELSE "text-gray-600"

\* getValueColor of DetailsPanel.
DetailsPanel_getValueColor(value) ==
    IF value = Null THEN "text-gray-500"
    ELSE IF JsLess(value, -40) THEN "text-red-600"
    ELSE IF JsLess(value, 0) THEN "text-orange-600"
    ELSE IF JsGreater(value, 40) THEN "text-blue-600"
    ELSE IF JsGreater(value, 0) THEN "text-sky-600"
    ELSE "text-gray-600"

\* Faulty variant: a value of exactly -0.4 gets the badge.
DetailsPanel_Inclusive(tract, measure) ==
    LET iceValue == tract.ice[measure]
        isReliable == tract.reliable[measure]
        isPriorityArea == iceValue # Null /\ iceValue[2] <= -40
    IN  [value |-> formatValue(iceValue),
         valueColor |-> DetailsPanel_getValueColor(iceValue),
         quality |-> IF FlagTruthy(isReliable) THEN "Reliable estimate"
                     ELSE "Use with caution",
         marginNote |-> ~FlagTruthy(isReliable),
         priorityBadge |-> isPriorityArea]

\* DetailsPanel: the value cell and its styling, the Data Quality block and
\* the Priority Area badge.
DetailsPanel(tract, measure) ==
    LET iceValue == tract.ice[measure]
        isReliable == tract.reliable[measure]
        isPriorityArea == iceValue # Null /\ JsLess(iceValue, -40)
    IN  [value |-> formatValue(iceValue),
         valueColor |-> DetailsPanel_getValueColor(iceValue),
         quality |-> IF FlagTruthy(isReliable) THEN "Reliable estimate"
                     ELSE "Use with caution",
         marginNote |-> ~FlagTruthy(isReliable),
         priorityBadge |-> isPriorityArea]

\* MapPopup: the value cell of the hover form (isHover) and of the selected
\* form, and the Data Reliability row of the selected form.
MapPopup(tract, measure) ==
    LET iceValue == tract.ice[measure]
        flag == tract.reliable[measure]
    IN  [hoverValue |-> formatValue(iceValue),
         value |-> formatValue(iceValue),
         valueColor |-> MapPopup_getValueColor(iceValue),
         reliability |-> IF flag # "absent"
                         THEN (IF FlagTruthy(flag) THEN "Reliable estimate"
                               ELSE "Use with caution")
                         ELSE "hidden"]

\* A measure change re-renders the panel and the popup of the shown tract.
Panel_onMeasureChange(m) ==
    /\ selectedMeasure' = m
    /\ detailsPanel' = DetailsPanel(panelTract, m)
    /\ mapPopup' = MapPopup(panelTract, m)
    /\ UNCHANGED <<impl, uiVars, showPriorityAreas, showCommunityAreas,
                   paintVars, panelTract, backingData, colorVars, fetchVars,
                   styleVars,
                   scriptVars>>

\* The tract's feature disappears from the data store.  The popup and the
\* panel render the properties object that the click handler put into React
\* state; nothing reads the data store again for a tract already selected.
Panel_RemoveData ==
    /\ backingData
    /\ backingData' = FALSE
    /\ detailsPanel' = DetailsPanel(panelTract, selectedMeasure)
    /\ mapPopup' = MapPopup(panelTract, selectedMeasure)
    /\ UNCHANGED <<impl, uiVars, pageVars, paintVars, panelTract, colorVars,
                   fetchVars, styleVars,
                   scriptVars>>

\* ---------------------------------------------------------- specification

\* The probes at rest: used where a specification does not exercise them.
PaintIdle ==
    /\ probeA = Probe(Null, FALSE)
    /\ probeB = Probe(Null, FALSE)
    /\ fillOpacity = PaintFill(impl, probeA, probeB, showPriorityAreas)

PanelIdle ==
    /\ panelTract = [ice |-> [m \in Measures |-> Null],
                     reliable |-> [m \in Measures |-> "absent"]]
    /\ detailsPanel = DetailsPanel(panelTract, selectedMeasure)
    /\ mapPopup = MapPopup(panelTract, selectedMeasure)
    /\ backingData = TRUE

ColorIdle ==
    /\ colorFeature = [m \in Measures |-> Null]
    /\ colorHover = FALSE
    /\ fillColorExpr = FillColor(impl, selectedMeasure)
    /\ fillColor = EvaluateFillColor(fillColorExpr, colorFeature)

FetchIdle ==
    /\ stats = DefaultStats
    /\ requests = <<>>
    /\ exportState = "idle"

StyleIdle ==
    /\ paintMeasure = FillColor(impl, selectedMeasure).get
    /\ styleLoaded = TRUE
    /\ styledataListeners = <<>>

\* The preparation script has not been started.
ScriptIdle ==
    /\ scriptFiles = <<>>
    /\ scriptNext = 1
    /\ scriptOutputs = <<>>

ProbesIdle ==
    /\ PaintIdle
    /\ PanelIdle
    /\ ColorIdle
    /\ FetchIdle
    /\ StyleIdle
    /\ ScriptIdle

UIInit ==
    /\ impl \in Impls
    /\ featureState = [id \in FeatureIds |-> FALSE]
    /\ hoveredTract = Null
    /\ selectedTract = Null
    /\ hoveredFeatureId = Null
    /\ closureHoveredId = Null
    /\ pageSelectedTract = Null
    /\ selectedMeasure = "ice_race"
    /\ showPriorityAreas = FALSE
    /\ showCommunityAreas = FALSE
    /\ mapStyle = IF impl = "MapContainer" THEN "lightStyle" ELSE "light-v11"
    /\ selectedStyle = "standard"
    /\ viewState = "defaultView"
    /\ lastEvent = Event("init", Null, TRUE, Null)

Init ==
    /\ UIInit
    /\ ProbesIdle

Next ==
    \/ \E f \in Tracts \cup {Null} : MC_handleHover(f)
    \/ MC_onMouseLeave
    \/ \E f \in Tracts \cup {Null} : MC_handleClick(f)
    \/ MC_PopupOnClose
    \/ \E f \in Tracts \cup {Null} : MV_handleHover(f)
    \/ MV_onMouseLeave
    \/ \E f \in Tracts \cup {Null} : MV_handleClick(f)
    \/ MV_PopupOnClose
    \/ Render
    \/ DetailsPanelOnClose
    \/ \E m \in Measures : onMeasureChange(m)
    \/ \E b \in BOOLEAN : onTogglePriority(b)
    \/ \E b \in BOOLEAN : onToggleCommunityAreas(b)
    \/ \E s \in StyleIds : handleStyleChange(s)
    \/ onMove
    \/ onResetView

Spec == Init /\ [][Next]_vars

\* The paint rules on two probed features of any values.
PaintInit ==
    /\ UIInit
    /\ probeA \in {Probe(v, FALSE) : v \in ProbeValues}
    /\ probeB \in {Probe(v, FALSE) : v \in ProbeValues}
    /\ fillOpacity = PaintFill(impl, probeA, probeB, showPriorityAreas)
    /\ PanelIdle
    /\ ColorIdle
    /\ FetchIdle
    /\ StyleIdle
    /\ ScriptIdle

PaintNext ==
    \/ \E b \in BOOLEAN : Paint_onTogglePriority(b)
    \/ \E h \in BOOLEAN : Paint_setHoverA(h)
    \/ \E h \in BOOLEAN : Paint_setHoverB(h)

PaintSpec == PaintInit /\ [][PaintNext]_vars

\* The details panel and the selected popup on a tract of any properties.
PanelInit ==
    /\ UIInit
    /\ PaintIdle
    /\ panelTract \in PanelTracts
    /\ detailsPanel = DetailsPanel(panelTract, selectedMeasure)
    /\ mapPopup = MapPopup(panelTract, selectedMeasure)
    /\ backingData = TRUE
    /\ ColorIdle
    /\ FetchIdle
    /\ StyleIdle
    /\ ScriptIdle

PanelNext ==
    \/ \E m \in Measures : Panel_onMeasureChange(m)
    \/ Panel_RemoveData

PanelSpec == PanelInit /\ [][PanelNext]_vars

\* The colour rule on a feature of any value.
ColorInit ==
    /\ UIInit
    /\ PaintIdle
    /\ PanelIdle
    /\ colorFeature \in ColorFeatures
    /\ colorHover = FALSE
    /\ fillColorExpr = FillColor(impl, selectedMeasure)
    /\ fillColor = EvaluateFillColor(fillColorExpr, colorFeature)
    /\ FetchIdle
    /\ StyleIdle
    /\ ScriptIdle

ColorNext ==
    \/ \E m \in Measures : Color_onMeasureChange(m)
    \/ \E h \in BOOLEAN : Color_setHover(h)
    \/ \E b \in BOOLEAN : Color_onTogglePriority(b)
    \/ \E b \in BOOLEAN : Color_onToggleCommunityAreas(b)
    \/ \E t \in Tracts \cup {Null} : Color_onSelect(t)

ColorSpec == ColorInit /\ [][ColorNext]_vars

\* The fetches of the summary statistics.  The effect of the first render
\* has started the fetch for the initial measure.
FetchInit ==
    /\ UIInit
    /\ PaintIdle
    /\ PanelIdle
    /\ ColorIdle
    /\ stats = DefaultStats
    /\ requests = <<selectedMeasure>>
    /\ exportState = "idle"
    /\ StyleIdle
    /\ ScriptIdle

FetchNext ==
    \/ \E m \in Measures : Fetch_onMeasureChange(m)
    \/ \E i \in 1..MaxInFlight, r \in Responses : Fetch_settle(i, r)
    \/ Export_click
    \/ \E r \in Responses : Export_settle(r)

FetchSpec == FetchInit /\ [][FetchNext]_vars

\* Measure changes against the loading of the style.
StyleInit ==
    /\ UIInit
    /\ PaintIdle
    /\ PanelIdle
    /\ ColorIdle
    /\ FetchIdle
    /\ paintMeasure = FillColor(impl, selectedMeasure).get
    /\ styleLoaded \in BOOLEAN
    /\ styledataListeners = <<>>
    /\ ScriptIdle

StyleNext ==
    \/ \E m \in Measures : MC_onMeasureChange(m)
    \/ \E m \in Measures : MV_onMeasureChange(m)
    \/ \E b \in BOOLEAN : Style_setLoaded(b)
    \/ Style_styledata

StyleSpec == StyleInit /\ [][StyleNext]_vars

\* The preparation script on a tract file and a community-area file of any
\* content, about to enter its loop.
ScriptInit ==
    /\ UIInit
    /\ PaintIdle
    /\ PanelIdle
    /\ ColorIdle
    /\ FetchIdle
    /\ StyleIdle
    /\ scriptFiles \in {<<t, a>> : t \in TractFiles, a \in AreaFiles}
    /\ scriptNext = 1
    /\ scriptOutputs = <<NotProcessed, NotProcessed>>

ScriptNext == Script_processFile

ScriptSpec == ScriptInit /\ [][ScriptNext]_vars

\* ================================================================= claims

HoverFlagCount == Cardinality({id \in FeatureIds : featureState[id]})

IsNumber(v) == v[1] = "number"
\* A measure value of the data: a number in [-1, 1].
InRange(v) == IsNumber(v) /\ v[2] >= -100 /\ v[2] <= 100
BelowThreshold(v) == IsNumber(v) /\ v[2] < PRIORITY_THRESHOLD

\* C1: in every reachable state at most one feature has its hover flag set,
\* also when several pointer events run on the handlers of one render.
C1_AtMostOneHoverFlag == HoverFlagCount <= 1

C3_LeaveClearsHover ==
    lastEvent.kind = "leave"
    => /\ hoveredTract = Null
       /\ hoveredFeatureId = Null
       /\ HoverFlagCount = 0

\* C4: pointer-move and pointer-leave handlers leave the selection of the
\* map component and of the page as they were.
C4_HoverKeepsSelection ==
    [][((\E f \in Tracts \cup {Null} : MC_handleHover(f) \/ MV_handleHover(f))
        \/ MC_onMouseLeave \/ MV_onMouseLeave)
       => UNCHANGED selectionVars]_vars

\* A tract is selected and a pointer handler has just run.
C4_Witness ==
    /\ lastEvent.kind \in {"move", "leave"}
    /\ selectedTract # Null
    /\ pageSelectedTract = selectedTract

C7_CloseSelection ==
    [][(MC_PopupOnClose \/ MV_PopupOnClose)
       => /\ selectedTract' = Null
          /\ pageSelectedTract' = Null
          /\ UNCHANGED hoverVars
          /\ (HoverPopup' # Null <=> hoveredTract # Null)
          /\ SelectedPopup' = Null]_vars

\* The popup was closed while a tract was hovered: its hover popup shows.
C7_Witness ==
    /\ lastEvent.kind = "close"
    /\ selectedTract = Null
    /\ hoveredTract # Null
    /\ HoverPopup = hoveredTract

\* C8: with priority mode on, a non-hovered feature below -0.4 is painted
\* with strictly higher opacity than a non-hovered feature with a value not
\* below -0.4; with priority mode off all non-hovered features are painted
\* with the same opacity.  In both components.
C8_PriorityOpacity ==
    (~probeA.hover /\ ~probeB.hover /\ InRange(probeA.value) /\ InRange(probeB.value))
    => /\ (showPriorityAreas /\ BelowThreshold(probeA.value)
           /\ ~BelowThreshold(probeB.value))
          => fillOpacity.A > fillOpacity.B
       /\ ~showPriorityAreas => fillOpacity.A = fillOpacity.B

\* C9: a feature that is neither hovered nor below the threshold is painted
\* with the baseline opacity (the one it has with priority mode off) whether
\* priority mode is on or off.
C9_BaselineUnlessPriority ==
    (~probeA.hover /\ InRange(probeA.value) /\ ~BelowThreshold(probeA.value))
    => fillOpacity.A = FillOpacity(impl, probeA, FALSE)

\* C10: the details panel shows "Use with caution" and its margin-of-error
\* note only if the reliability flag of the measure is explicitly false.
C10_CautionOnlyIfFalse ==
    (detailsPanel.quality = "Use with caution" \/ detailsPanel.marginNote)
    => panelTract.reliable[selectedMeasure] = "false"

\* What a value cell shows for a missing value.
NoData == Shown("No data", 0)

\* A colour as parsed from its string (channels over 1).
Exact(hex) == Color(ParseColor(hex), 1)

\* Two colours with rational channels are the same colour.
SameColor(a, b) ==
    \A c \in 1..3 : a.rgb[c] * b.den = b.rgb[c] * a.den

\* C11: for a tract whose value of the selected measure is absent (null, or
\* the attribute missing altogether) the hover popup, the selected popup and
\* the details panel raise no error and each show 'No data', and the map
\* fill uses the no-data colour.
C11_AbsentShowsNoData ==
    (panelTract.ice[selectedMeasure] \in {Null, Undefined})
    => /\ mapPopup.hoverValue = NoData
       /\ mapPopup.value = NoData
       /\ detailsPanel.value = NoData
       /\ SameColor(EvaluateFillColor(FillColor(impl, selectedMeasure),
                                      panelTract.ice),
                    Exact(FillColor(impl, selectedMeasure).noData))

\* C12: whenever a summary-statistics fetch fails (the request rejects, the
\* body is not JSON, or the file lacks the expected fields) the failure is
\* caught and the metrics panel shows the built-in defaults 866, 330, 0.113,
\* also when an earlier fetch for another measure had succeeded.
C12_FailureShowsDefaults ==
    lastEvent.kind \in {"caught", "skipped"} => stats = DefaultStats

\* C13: a rejected or unparsable fetch of the 'Download Data' export ends
\* handled: it leaves no unhandled promise rejection.
C13_ExportFailureHandled == exportState # "unhandledRejection"

\* C14: after any sequence of measure changes, once the map has re-rendered,
\* its style is loaded and no callback is waiting, the fill-color of
\* tract-fill reads the currently selected measure, in both components.
C14_FillReadsSelectedMeasure ==
    (styleLoaded /\ styledataListeners = <<>>) => paintMeasure = selectedMeasure

\* The tracts drawn with the outline of the selection.  MapContainer renders
\* the tract-highlight layer filtered on the selected GEOID; MapboxVectorMap
\* renders no layer for the selection (its outline follows the hover flag).
MC_SelectionOutline == {t \in Tracts : GEOID(t) = MC_HighlightFilter}
MV_SelectionOutline == {}
SelectionOutline ==
    IF impl = "MapContainer" THEN MC_SelectionOutline ELSE MV_SelectionOutline

\* C15: in each map component, whenever a feature is selected the outline of
\* the selection is drawn for exactly that feature (matched by GEOID), and
\* when nothing is selected it is drawn for none.
C15_OutlineOnSelection ==
    SelectionOutline = IF selectedTract = Null THEN {} ELSE {selectedTract}

\* C16: once the backing data of the shown tract has been removed from the
\* data store, the selected popup and the details panel show 'No data' and
\* raise no error.
C16_RemovedShowsNoData ==
    ~backingData => (mapPopup.value = NoData /\ detailsPanel.value = NoData)

\* The value the colour rule reads from the probed feature.
SelectedValue == Get(colorFeature, selectedMeasure)

\* C17: for every selected measure the fill colour at the anchors is: value
\* 0.0 #ffffff, value -1.0 #67000d, value 1.0 #08306b, and no value one
\* fixed gray of the component that is not #ffffff.
C17_AnchorColours ==
    /\ SelectedValue = Num(0) => SameColor(fillColor, Exact(<<15, 15, 15, 15, 15, 15>>))
    /\ SelectedValue = Num(-100) => SameColor(fillColor, Exact(<<6, 7, 0, 0, 0, 13>>))
    /\ SelectedValue = Num(100) => SameColor(fillColor, Exact(<<0, 8, 3, 0, 6, 11>>))
    /\ SelectedValue = Null
       => /\ SameColor(fillColor, Exact(FillColor(impl, "ice_race").noData))
          /\ fillColor.rgb[1] = fillColor.rgb[2]
          /\ fillColor.rgb[2] = fillColor.rgb[3]
          /\ ~SameColor(fillColor, Exact(<<15, 15, 15, 15, 15, 15>>))

\* After a measure change a feature without a value for the new measure is
\* painted in MapContainer's gray.
C17_Witness ==
    /\ impl = "MapContainer"
    /\ selectedMeasure = "ice_income"
    /\ colorFeature["ice_race"] = Num(0)
    /\ colorFeature["ice_income"] = Undefined
    /\ fillColor = Exact(<<14, 0, 14, 0, 14, 0>>)

\* C18: each colour scale has exactly 11 breakpoints, strictly increasing
\* from -1.0 to 1.0 in equal steps of 0.2 and symmetric about 0, with
\* exactly one colour paired to each breakpoint.
C18_ScaleShape ==
    LET stops == fillColorExpr.stops
        n == StopCount(stops)
    IN  /\ Len(stops) = 22
        /\ \A i \in 1..n : StopInput(stops, i) = -100 + 20 * (i - 1)
        /\ \A i \in 1..(n - 1) : StopInput(stops, i) < StopInput(stops, i + 1)
        /\ \A i \in 1..n : StopInput(stops, i) = 0 - StopInput(stops, n + 1 - i)
        /\ \A i \in 1..n : Len(stops[2 * i]) = 6
        /\ impl = "MapContainer"
           => /\ Len(ICE_COLOR_SCALE.breakpoints) = 11
              /\ Len(ICE_COLOR_SCALE.colors) = 11
        /\ impl = "MapboxVectorMap"
           => /\ Len(ICE_COLOR_SCALE_VECTOR.stops) = 11
              /\ \A i \in 1..11 : Len(ICE_COLOR_SCALE_VECTOR.stops[i]) = 2

\* MapboxVectorMap has rendered the expression of another measure from its
\* stops.
C18_Witness ==
    /\ impl = "MapboxVectorMap"
    /\ selectedMeasure = "ice_race_income"
    /\ fillColorExpr.get = "ice_race_income"
    /\ StopInput(fillColorExpr.stops, 3) = -60

\* C19: for a value in [-1, 1], each channel of the fill colour lies between
\* the channels of the colours of the two breakpoints around the value (no
\* overshoot), and at a breakpoint the colour is that breakpoint's colour.
C19_NoOvershoot ==
    LET stops == fillColorExpr.stops
        x == SelectedValue[2]
    IN  (IsNumber(SelectedValue) /\ x >= -100 /\ x <= 100)
        => /\ \A i \in 1..(StopCount(stops) - 1) :
                (StopInput(stops, i) <= x /\ x <= StopInput(stops, i + 1))
                => \A c \in 1..3 :
                      LET lo == StopOutput(stops, i)[c] * fillColor.den
                          hi == StopOutput(stops, i + 1)[c] * fillColor.den
                      IN  \/ (lo <= fillColor.rgb[c] /\ fillColor.rgb[c] <= hi)
                          \/ (hi <= fillColor.rgb[c] /\ fillColor.rgb[c] <= lo)
           /\ \A i \in 1..StopCount(stops) :
                x = StopInput(stops, i)
                => SameColor(fillColor, Color(StopOutput(stops, i), 1))

\* A value three quarters of the way from -0.6 to -0.4 is painted strictly
\* between #cb181d and #ef3b2c.
C19_Witness ==
    /\ selectedMeasure = "ice_race_income"
    /\ SelectedValue = Num(-45)
    /\ fillColor.den = 20
    /\ fillColor.rgb[1] > 203 * 20
    /\ fillColor.rgb[1] < 239 * 20
    /\ fillColor.rgb[2] = 24 * 20 + 35 * 15

\* C20: a value below -1.0 is painted #67000d and a value above 1.0 is
\* painted #08306b, the colours of the ends of the scale.
C20_Clamped ==
    /\ (IsNumber(SelectedValue) /\ SelectedValue[2] < -100)
       => SameColor(fillColor, Exact(<<6, 7, 0, 0, 0, 13>>))
    /\ (IsNumber(SelectedValue) /\ SelectedValue[2] > 100)
       => SameColor(fillColor, Exact(<<0, 8, 3, 0, 6, 11>>))

\* A value above 1.0 has been painted in the colour of the last stop.
C20_Witness ==
    /\ IsNumber(SelectedValue)
    /\ SelectedValue[2] > 100
    /\ selectedMeasure # "ice_race"
    /\ fillColor = Exact(<<0, 8, 3, 0, 6, 11>>)

PanelPriority ==
    /\ IsNumber(panelTract.ice[selectedMeasure])
    /\ panelTract.ice[selectedMeasure][2] < -40

\* C22: a tract counts as a priority area exactly when its value for the
\* selected measure is present and strictly below -0.4 (exactly -0.4 is
\* not), and the badge of the details panel, the styling of the popup value
\* and the priority branch (0.85) of MapContainer's opacity rule all
\* classify the value so.
C22_PriorityClassification ==
    /\ detailsPanel.priorityBadge <=> PanelPriority
    /\ (mapPopup.valueColor = "text-red-600 font-semibold") <=> PanelPriority
    /\ (detailsPanel.valueColor = "text-red-600") <=> PanelPriority
    /\ (MC_fillOpacity(Get(panelTract.ice, selectedMeasure), FALSE, TRUE) = 85)
       <=> PanelPriority

\* After a change of measure the shown value is exactly -0.4: no badge.
C22_Witness ==
    /\ selectedMeasure = "ice_income"
    /\ panelTract.ice["ice_income"] = Num(-40)
    /\ panelTract.ice["ice_race"] = Num(-45)
    /\ ~detailsPanel.priorityBadge
    /\ mapPopup.valueColor = "text-orange-600"

\* The files the loop has been through.
ProcessedFiles == 1..(scriptNext - 1)

\* The attributes of the model's features that the application reads as
\* numbers.
IsJsonNumberOrAbsent(v) == v[1] \in {"number", "null", "undefined"}

\* C23: after the preparation script every attribute the application reads
\* as a number (here ice_race, ice_race_quintile, total_pop, total_hh_count)
\* is a JSON number, null or absent in every written feature, never a
\* string.
C23_NumbersAreNumbers ==
    \A i \in ProcessedFiles :
        scriptOutputs[i].written =>
            \A j \in 1..Len(scriptOutputs[i].features) :
                LET props == scriptOutputs[i].features[j].properties
                IN  /\ IsJsonNumberOrAbsent(props.ice_race)
                    /\ IsJsonNumberOrAbsent(props.total_pop)
                    /\ IsJsonNumberOrAbsent(props.ice_race_quintile)
                    /\ IsJsonNumberOrAbsent(props.total_hh_count)

\* The features of an input file that have a properties object, in input
\* order.
KeptFeatures(file) == SelectSeq(file.features, LAMBDA f : f.hasProperties)

\* C30: for every file the loop has been through: a file without error is
\* written with exactly its features that have a properties object, in
\* input order (its feature count is the input count minus the skipped
\* count); a file with a read, parse or write error is not written, and the
\* loop has still gone through the files after it.
C30_DropsExactlyPropertyless ==
    \A i \in ProcessedFiles :
        LET file == scriptFiles[i]
            out == scriptOutputs[i]
            kept == KeptFeatures(file)
        IN  IF file.status = "ok"
            THEN /\ out.written
                 /\ Len(out.features) = Len(kept)
                 /\ \A j \in 1..Len(kept) :
                       /\ out.features[j].hasProperties
                       /\ out.features[j].properties.GEOID
                            = kept[j].properties.GEOID
                       /\ out.features[j].properties.community
                            = kept[j].properties.community
                 /\ out.skipped = Len(file.features) - Len(kept)
                 /\ out.processed = Len(kept)
                 /\ Len(out.features) = Len(file.features) - out.skipped
            ELSE ~out.written

\* The first file failed to parse and the second was still written, with
\* its feature without properties dropped.
C30_Witness ==
    /\ scriptNext = 3
    /\ scriptFiles[1].status = "unparsable"
    /\ scriptFiles[2].status = "ok"
    /\ scriptOutputs[2].written
    /\ scriptOutputs[2].skipped = 1
    /\ Len(scriptOutputs[2].features) = 1

\* C24: whenever no summary-statistics fetch is in flight and the last fetch
\* to settle succeeded, the statistics shown are those of the currently
\* selected measure, in whatever order the responses arrived.
C24_StatsOfSelectedMeasure ==
    (requests = <<>> /\ lastEvent.kind = "set")
    => /\ stats.priorityTracts
            = JsOr(FilePriorityAreas[ShortName(selectedMeasure)], 0)
       /\ stats.avgValue = JsOr(FileMeans[selectedMeasure], 0)

\* C25: in every reachable state the page's selectedTract and
\* MapContainer's selectedTract agree: both none, or the same tract.
C25_SelectionsAgree ==
    impl = "MapContainer" => pageSelectedTract = selectedTract

\* C26: in MapContainer, after the pointer has moved over a feature the
\* hover flag is set on that feature as the tract source identifies it, and
\* on no other feature of the source.
C26_HoverFlagOnHoveredFeature ==
    (impl = "MapContainer" /\ lastEvent.kind = "move" /\ lastEvent.f # Null
       /\ lastEvent.fresh)
    => /\ featureState[SourceFeatureId(lastEvent.f)]
       /\ \A t \in Tracts \ {lastEvent.f} : ~featureState[SourceFeatureId(t)]

\* C27: MapboxVectorMap and MapContainer assign the same fill colour to
\* every feature, a feature without a value for the selected measure
\* included.
C27_SameColourInBoth ==
    SameColor(EvaluateFillColor(MC_fillColor(selectedMeasure), colorFeature),
              EvaluateFillColor(MV_fillColor(selectedMeasure), colorFeature))

\* C28: at most one popup is rendered at any time: the hover popup only
\* while a tract is hovered and nothing is selected, the selected popup
\* exactly while a tract is selected, in both components.
C28_AtMostOnePopup ==
    /\ ~(HoverPopup # Null /\ SelectedPopup # Null)
    /\ HoverPopup # Null => (hoveredTract # Null /\ selectedTract = Null)
    /\ (hoveredTract # Null /\ selectedTract = Null) => HoverPopup = hoveredTract
    /\ SelectedPopup # Null <=> selectedTract # Null
    /\ SelectedPopup = selectedTract

\* A tract is hovered while another is selected: only the selected popup is
\* rendered.
C28_Witness ==
    /\ hoveredTract # Null
    /\ selectedTract # Null
    /\ hoveredTract # selectedTract
    /\ lastEvent.kind = "move"
    /\ HoverPopup = Null
    /\ SelectedPopup = selectedTract

\* C29: in every reachable state, the initial one included, the style
\* highlighted in MapContainer's style switcher is the basemap style applied
\* to the map: the same style, drawing the same tiles.
C29_HighlightedStyleApplied ==
    impl = "MapContainer"
    => /\ mapStyle = selectedStyle
       /\ BasemapTiles(mapStyle) = BasemapTiles(selectedStyle)

=============================================================================
